---- MODULE Spec2Model ----
(***************************************************************************)
(* Model of the voice-streaming client of src/src/client/BlandClient.ts:   *)
(* the transport wrapper AudioWsClient (keepalive timers, message          *)
(* dispatch, guarded sends), the session BlandWebClient (initConversation, *)
(* stopConversation, the script-processor playback queue) and the worklet  *)
(* processor of src/test/dist/index.e93c85ca.js (workletCode).             *)
(*                                                                         *)
(* Time is a countdown on every pending timer; one Tick is TickMs.         *)
(* A float sample s is represented by the integer s * 65536 (half a         *)
(* quantization step of the 16-bit codec); the value NaN (a read past the  *)
(* end of a Float32Array) is the number NaN.                               *)
(***************************************************************************)
EXTENDS Integers, Sequences, FiniteSets, TLC

\* ---------------------------------------------------------------- bounds
MaxClients == 4
MaxFrameBytes == 4
BlockSize == 2
MaxChunks == 2
MaxPort == 3
MaxPosted == 1
MaxCursor == 3
MaxNotes == 3
MaxSamples == 2
MaxBufferBytes == 3
MaxCodecOps == 2
MaxTape == 5

\* ------------------------------------------------------ program constants
InitialPingIntervalTime == 5000
EscalationThreshold == 5000
FastPingIntervalTime == 1000
DisconnectDelay == 3000
OPEN == 1
CONNECTING == OPEN - 1
CLOSING == OPEN + 1
CLOSED == OPEN + 2

Null == 0
TickMs == FastPingIntervalTime
SilenceCap == InitialPingIntervalTime + DisconnectDelay

Clients == 1..MaxClients
FrameTags == {16, 240}
TextVals == {"pong", "clear", "hello"}
InputVals == {0, 65536}

VARIABLES
    worklet,      \* isAudioWorkletSupported(): fixed by the host browser
    session,      \* the fields of BlandWebClient
    pc,           \* where the running initConversation is suspended
    created,      \* number of AudioWsClient objects constructed so far
    ws,           \* per AudioWsClient: its fields and its socket's readyState
    timers,       \* the host's pending setTimeout / setInterval timers
    proc,         \* the fields of captureAndPlaybackProcessor (worklet side)
    toWorklet,    \* audioNode.port messages main -> worklet, not yet delivered
    fromWorklet,  \* port messages worklet -> main, not yet delivered
    quiet,        \* time since the last socket opened, while no pong was ever received
    stray,        \* script-processor nodes a later initConversation lost its reference to
    talk,         \* side-by-side run of both pipelines: the talking notifications of each
    codec,        \* a buffer handed to the free-standing conversion functions
    tape,         \* when recording: the frames received and the blocks played, in order
    tally,        \* when counting: how many conversationStarted / conversationEnded were emitted
    heard,        \* the talking notification the session emitted last, "none" before the first
    last,         \* the operation that produced this state
    fx            \* what that operation emitted, sent or threw, in order

vars == <<worklet, session, pc, created, ws, timers, proc, toWorklet, fromWorklet, quiet, stray,
          talk, codec, tape, tally, heard, last, fx>>

\* ------------------------------------------------------------- sequences
RECURSIVE SeqsUpTo(_, _)
SeqsUpTo(S, n) ==
    IF n = 0 THEN {<<>>}
    ELSE LET shorter == SeqsUpTo(S, n - 1)
         IN shorter \cup {Append(q, x) : q \in {r \in shorter : Len(r) = n - 1}, x \in S}

SeqsOfLen(S, n) == {q \in SeqsUpTo(S, n) : Len(q) = n}

\* An inbound binary frame of n bytes: byte i is tag + i, so that every sample
\* of a chunk, and the chunks of two tags, can be told apart.
FrameOf(n, tag) == [i \in 1..n |-> tag + i]
Frames == {FrameOf(n, tag) : n \in 0..MaxFrameBytes, tag \in FrameTags}

TextMsg(t) == [kind |-> "text", text |-> t, bytes |-> <<>>]
BinaryMsg(b) == [kind |-> "binary", text |-> "", bytes |-> b]
Messages == {TextMsg(t) : t \in TextVals} \cup {BinaryMsg(b) : b \in Frames}
KeepaliveMessages == {TextMsg("pong")}

\* The CloseEvent handed to ws.onclose: its code and its reason.
CloseEvent(code, reason) == [kind |-> "close", text |-> reason, bytes |-> <<code>>]
CloseEvents == {CloseEvent(1000, "bye"), CloseEvent(1006, "")}
AbnormalClosure == CloseEvent(1006, "")

\* JavaScript values carried by conversationEnded: a number, a string,
\* undefined, or the CloseEvent object itself.
JsNumber(n) == [type |-> "number", num |-> n, str |-> ""]
JsString(t) == [type |-> "string", num |-> 0, str |-> t]
JsUndefined == [type |-> "undefined", num |-> 0, str |-> ""]
JsCloseEvent(ev) == [type |-> "CloseEvent", num |-> ev.bytes[1], str |-> ev.text]
AudioMessages == Messages \ {TextMsg("pong")}

\* One observable effect of an operation: an event emitted by an AudioWsClient
\* ("ws.emit") or by the session ("emit"), a frame handed to a socket ("wire"),
\* or an exception leaving the handler ("throw"). v names the event, the frame
\* kind or the error; t and b are the text and byte payloads.
Effect(k, c, v, t, b) == [k |-> k, c |-> c, v |-> v, t |-> t, b |-> b]

\* ------------------------------------------------------------------ codec
\* DataView.getInt16(offset, littleEndian = true)
GetInt16(lo, hi) ==
    LET u == lo + 256 * hi
    IN IF u >= 32768 THEN u - 65536 ELSE u

\* units of the sample representation per quantization step: x / 32768 is
\* Step * x units
Step == 2

\* The value read past the end of a Float32Array (undefined, stored as NaN);
\* no sample of the model is this large.
NaN == 65536 * 1024

\* mutant: the length of the target array is rounded up
TargetLengthCeil(array) == (Len(array) + 1) \div 2

\* new Float32Array(byteLength / 2): the length is truncated (ToIndex)
TargetLength(array) == Len(array) \div 2

\* getInt16(i * 2, true) for the i-th sample (counted from 1) reads two bytes;
\* DataView throws a RangeError when they are not both inside the buffer
OutOfBounds(array, i) == 2 * i > Len(array)

\* each sample is getInt16(...) / Math.pow(2, 15); the samples listed are
\* those stored before a RangeError, if any, left the loop
convertUint8ToFloat32(array) ==
    [i \in {j \in 1..TargetLength(array) : ~OutOfBounds(array, j)} |->
        Step * GetInt16(array[2 * i - 1], array[2 * i])]

\* the exception leaving convertUint8ToFloat32, "none" when it returns
convertUint8ToFloat32Error(array) ==
    IF \E i \in 1..TargetLength(array) : OutOfBounds(array, i) THEN "RangeError" ELSE "none"

\* the integer part of n / d, rounded toward zero
TruncDiv(n, d) == IF n >= 0 THEN n \div d ELSE -((-n) \div d)

\* mutant: the sample is clamped to the 16-bit range instead of wrapped
ToInt16Clamp(value) ==
    IF value = NaN THEN 0
    ELSE LET t == TruncDiv(value, Step)
         IN IF t > 32767 THEN 32767 ELSE IF t < -32768 THEN -32768 ELSE t

\* DataView.setInt16(offset, array[i] * 32768, true): ToInt16 truncates
\* toward zero, wraps modulo 2^16, and maps NaN to 0.
ToInt16(value) ==
    IF value = NaN THEN 0
    ELSE LET m == TruncDiv(value, Step) % 65536
         IN IF m >= 32768 THEN m - 65536 ELSE m

\* mutant: the two bytes are stored high byte first
Int16BytesBigEndian(v) ==
    LET u == IF v < 0 THEN v + 65536 ELSE v
    IN <<u \div 256, u % 256>>

\* the two bytes setInt16(..., true) stores: low byte first
Int16Bytes(v) ==
    LET u == IF v < 0 THEN v + 65536 ELSE v
    IN <<u % 256, u \div 256>>

RECURSIVE convertFloat32ToUint8(_)
convertFloat32ToUint8(array) ==
    IF array = <<>> THEN <<>>
    ELSE Int16Bytes(ToInt16(Head(array))) \o convertFloat32ToUint8(Tail(array))

\* The conversion functions called on their own. codec holds the buffer
\* first handed in (input, of type origin), the conversions applied to it so far (ops), the
\* latest Float32Array and Uint8Array, which of the two the last conversion
\* returned (holds), and the exception that conversion raised.
NoCodec ==
    [origin |-> "none", input |-> <<>>, ops |-> <<>>, floats |-> <<>>, bytes |-> <<>>,
     holds |-> "none", error |-> "none"]
FloatInput(f) ==
    [NoCodec EXCEPT !.origin = "floats", !.input = f, !.floats = f, !.holds = "floats"]
ByteInput(b) ==
    [NoCodec EXCEPT !.origin = "bytes", !.input = b, !.bytes = b, !.holds = "bytes"]

\* 1.0 in the sample representation: 32768 quantization steps
FullScale == Step * 32768

\* Every sample k / 32768 of [-1, 1], alone in a buffer
UnitSamples == {<<Step * k>> : k \in -32768..32768}

\* Samples at and around the points where truncation and wrapping show: zero,
\* half a step and a step and a half on both sides, full scale on both sides
\* and just inside and outside it, 1.5 and 2.0 on both sides.
KeySamples ==
    {0, 1, -1, 3, -3, FullScale - 1, FullScale, FullScale + 1, -FullScale + 1, -FullScale,
     -FullScale - 1, -FullScale - Step, 3 * (FullScale \div 2), -3 * (FullScale \div 2),
     2 * FullScale, -2 * FullScale}
KeyBytes == {0, 1, 128, 255}

\* Every 16-bit sample, alone in a buffer
SamplePairs == {<<lo, hi>> : lo \in 0..255, hi \in 0..255}

\* codec is one of the buffers the conversions are tried on
CodecInput ==
    \/ \E f \in UnitSamples : codec = FloatInput(f)
    \/ \E f \in SeqsUpTo(KeySamples, MaxSamples) : codec = FloatInput(f)
    \/ \E b \in SamplePairs : codec = ByteInput(b)
    \/ \E b \in SeqsUpTo(KeyBytes, MaxBufferBytes) : codec = ByteInput(b)

Encode ==
    /\ codec.holds = "floats"
    /\ Len(codec.ops) < MaxCodecOps
    /\ codec' = [codec EXCEPT !.bytes = convertFloat32ToUint8(codec.floats),
                              !.holds = "bytes",
                              !.error = "none",
                              !.ops = Append(@, "encode")]
    /\ UNCHANGED <<worklet, session, pc, created, ws, timers, proc, toWorklet, fromWorklet,
                   quiet, stray, talk, tape, tally, heard, last, fx>>

Decode ==
    /\ codec.holds = "bytes"
    /\ Len(codec.ops) < MaxCodecOps
    /\ codec' = [codec EXCEPT !.floats = convertUint8ToFloat32(codec.bytes),
                              !.holds = IF convertUint8ToFloat32Error(codec.bytes) = "none"
                                        THEN "floats" ELSE "none",
                              !.error = convertUint8ToFloat32Error(codec.bytes),
                              !.ops = Append(@, "decode")]
    /\ UNCHANGED <<worklet, session, pc, created, ws, timers, proc, toWorklet, fromWorklet,
                   quiet, stray, talk, tape, tally, heard, last, fx>>

\* ------------------------------------------------------- playback record
\* tape.log lists, while tape.rec, every binary frame a socket delivered
\* ("frame", its bytes) and every output block the script processor filled
\* ("pull", its samples), in the order they happened.
NoTape == [rec |-> FALSE, log |-> <<>>]
Arrived(T, m) ==
    IF T.rec /\ m.kind = "binary"
    THEN [T EXCEPT !.log = Append(@, [k |-> "frame", v |-> m.bytes])]
    ELSE T
Pulled(T, out) ==
    IF T.rec THEN [T EXCEPT !.log = Append(@, [k |-> "pull", v |-> out])] ELSE T
TapeHasRoom == tape.rec => Len(tape.log) < MaxTape

\* the playback queue is capped where the length of the record does not
\* already cap the run
QueueHasRoom == tape.rec \/ Len(session.audioData) < MaxChunks

\* ------------------------------------------------------- operation context
\* Handlers are composed as functions on a context: the whole mutable state
\* plus the effects produced so far by the running operation.
Ctx ==
    [s |-> session, pc |-> pc, created |-> created, ws |-> ws, timers |-> timers,
     proc |-> proc, toWorklet |-> toWorklet, fromWorklet |-> fromWorklet, quiet |-> quiet,
     stray |-> stray, talk |-> talk, tape |-> tape, fx |-> <<>>]

\* the agentStartTalking / agentStopTalking events among the effects, in order
RECURSIVE TalkNames(_)
TalkNames(effects) ==
    IF effects = <<>> THEN <<>>
    ELSE IF Head(effects).k = "emit"
              /\ Head(effects).v \in {"agentStartTalking", "agentStopTalking"}
         THEN <<Head(effects).v>> \o TalkNames(Tail(effects))
         ELSE TalkNames(Tail(effects))

Heard(before, effects) ==
    LET names == TalkNames(effects)
    IN IF names = <<>> THEN before ELSE names[Len(names)]

\* the session's conversationStarted and conversationEnded events, counted
NoTally == [on |-> FALSE, started |-> 0, ended |-> 0]
Emitted(effects, name) ==
    Cardinality({i \in DOMAIN effects : effects[i].k = "emit" /\ effects[i].v = name})
Tally(before, effects) ==
    IF before.on
    THEN [before EXCEPT !.started = @ + Emitted(effects, "conversationStarted"),
                        !.ended = @ + Emitted(effects, "conversationEnded")]
    ELSE before

Commit(X, op) ==
    /\ session' = X.s
    /\ pc' = X.pc
    /\ created' = X.created
    /\ ws' = X.ws
    /\ timers' = X.timers
    /\ proc' = X.proc
    /\ toWorklet' = X.toWorklet
    /\ fromWorklet' = X.fromWorklet
    /\ quiet' = X.quiet
    /\ talk' = X.talk
    /\ tape' = X.tape
    /\ heard' = Heard(heard, X.fx)
    /\ tally' = Tally(tally, X.fx)
    /\ stray' = X.stray
    /\ fx' = X.fx
    /\ last' = op
    /\ UNCHANGED <<worklet, codec>>

\* The operation just run, on which client, with which input, that client's
\* pingIntervalTime when it started, and whether it is a stopConversation()
\* called directly after another one.
Op(name, c, m) ==
    [op |-> name, c |-> c, m |-> m,
     interval |-> IF c \in Clients THEN ws[c].pingIntervalTime ELSE 0,
     again |-> (name = "stopConversation" /\ last.op = "stopConversation")]
NoMsg == TextMsg("")

AddFx(X, k, c, v, t, b) == [X EXCEPT !.fx = Append(@, Effect(k, c, v, t, b))]

\* EventEmitter.emit on the session object (public events)
Emit(X, name) == AddFx(X, "emit", 0, name, "", <<>>)
EmitText(X, name, t) == AddFx(X, "emit", 0, name, t, <<>>)
EmitBytes(X, name, b) == AddFx(X, "emit", 0, name, "", b)
\* this.emit("conversationEnded", { code, reason })
EmitEnded(X, code, reason) ==
    [X EXCEPT !.fx = Append(@, [k |-> "emit", c |-> 0, v |-> "conversationEnded",
                                t |-> "", b |-> <<>>, code |-> code, reason |-> reason])]
\* an exception leaving the running handler
Throw(X, what) == AddFx(X, "throw", 0, what, "", <<>>)
\* a call that releases a host resource: ws.close(), audioContext.close(),
\* node.disconnect(), track.stop()
Call(X, c, what) == AddFx(X, "call", c, what, "", <<>>)

\* ----------------------------------------------------------------- timers
\* A handle is opaque; a client only ever holds handles of its own timers, so
\* handles are numbered per client. One is never reused while a field or a
\* pending timer still carries it.
UsedHandles(X, c) ==
    {t.id : t \in {u \in X.timers : u.owner = c}}
        \cup {X.ws[c].pingTimeout, X.ws[c].pingInterval}

FreshHandle(X, c) ==
    CHOOSE h \in 1..(Cardinality(UsedHandles(X, c)) + 1) :
        /\ h \notin UsedHandles(X, c)
        /\ \A g \in 1..(h - 1) : g \in UsedHandles(X, c)

Timer(h, c, cb, delay, period) ==
    [id |-> h, owner |-> c, cb |-> cb, rem |-> delay, period |-> period]

\* clearTimeout / clearInterval: a handle that is not pending is ignored
ClearTimer(X, c, h) == [X EXCEPT !.timers = {t \in @ : ~(t.owner = c /\ t.id = h)}]

\* ------------------------------------------------------ AudioWsClient (1)
NewWs ==
    [readyState |-> CONNECTING, pingTimeout |-> Null, pingInterval |-> Null,
     wasDisconnected |-> FALSE, pingIntervalTime |-> InitialPingIntervalTime,
     disconnects |-> 0]

\* ws.send(data) as called by the code; the socket transmits its first argument
WsSendText(X, c, text) == AddFx(X, "wire", c, "text", text, <<>>)
WsSendBytes(X, c, bytes) == AddFx(X, "wire", c, "binary", "", bytes)

\* this.ws.send("message", "ping"): the text handed to the socket is "message"

sendPing(X, c) ==
    IF X.ws[c].readyState = OPEN THEN WsSendText(X, c, "message") ELSE X

\* mutant: the previous deadline is left pending
resetPingTimeoutNoClear(X, c) ==
    LET h == FreshHandle(X, c)
    IN [X EXCEPT !.timers = @ \cup {Timer(h, c, "deadline", X.ws[c].pingIntervalTime, 0)},
                 !.ws[c].pingTimeout = h]

resetPingTimeout(X, c) ==
    LET X1 == IF X.ws[c].pingTimeout # Null THEN ClearTimer(X, c, X.ws[c].pingTimeout) ELSE X
        h == FreshHandle(X1, c)
    IN [X1 EXCEPT !.timers = @ \cup {Timer(h, c, "deadline", X1.ws[c].pingIntervalTime, 0)},
                  !.ws[c].pingTimeout = h]

startPingPong(X, c) ==
    LET h == FreshHandle(X, c)
        X1 == [X EXCEPT !.timers = @ \cup {Timer(h, c, "sendPing", X.ws[c].pingIntervalTime,
                                                 X.ws[c].pingIntervalTime)},
                        !.ws[c].pingInterval = h]
    IN resetPingTimeout(X1, c)

adjustPingFrequency(X, c, newInterval) ==
    IF X.ws[c].pingIntervalTime # newInterval
    THEN LET X1 == IF X.ws[c].pingInterval # Null
                   THEN ClearTimer(X, c, X.ws[c].pingInterval) ELSE X
         IN startPingPong([X1 EXCEPT !.ws[c].pingIntervalTime = newInterval], c)
    ELSE X

\* mutant: no readiness guard
sendUnguarded(X, c, audio) == WsSendBytes(X, c, audio)

send(X, c, audio) ==
    IF X.ws[c].readyState = OPEN THEN WsSendBytes(X, c, audio) ELSE X

\* WebSocket.close(): a socket that is connecting or open starts closing
close(X, c) ==
    IF X.ws[c].readyState \in {CONNECTING, OPEN}
    THEN [X EXCEPT !.ws[c].readyState = CLOSING]
    ELSE X

\* ---------------------------------------------------------- BlandWebClient
NewSession ==
    [isCalling |-> FALSE, isTalking |-> FALSE, audioData |-> <<>>, audioDataIndex |-> 0,
     liveClient |-> Null, audioContext |-> "none", audioNode |-> "none",
     captureNode |-> "none", stream |-> "none"]

\* running: the audio thread is rendering with this processor
NewProc == [audioData |-> <<>>, index |-> 0, isTalking |-> FALSE, running |-> FALSE]

\* mutant: the reference to the transport is kept
stopConversationKeepClient(X) ==
    LET X1 == IF X.s.liveClient # Null
              THEN close(Call(X, X.s.liveClient, "ws.close"), X.s.liveClient)
              ELSE X
        X2 == IF X1.s.audioContext # "none" THEN Call(X1, 0, "audioContext.close") ELSE X1
        X3 == IF worklet
              THEN IF X2.s.audioNode # "none" THEN Call(X2, 0, "audioNode.disconnect") ELSE X2
              ELSE IF X2.s.captureNode # "none"
                   THEN Call(X2, 0, "captureNode.disconnect")
                   ELSE X2
        X4 == IF X3.s.stream # "none" THEN Call(X3, 0, "track.stop") ELSE X3
        s1 == [X4.s EXCEPT !.isCalling = FALSE]
        s2 == IF worklet
              THEN [s1 EXCEPT !.audioNode = "none"]
              ELSE IF s1.captureNode # "none"
                   THEN [s1 EXCEPT !.captureNode = "none", !.audioData = <<>>,
                                   !.audioDataIndex = 0]
                   ELSE s1
    IN [X4 EXCEPT !.s = [s2 EXCEPT !.stream = "none",
                                   !.audioContext = "none"]]

\* public stopConversation()
stopConversation(X) ==
    LET X1 == IF X.s.liveClient # Null
              THEN close(Call(X, X.s.liveClient, "ws.close"), X.s.liveClient)
              ELSE X
        X2 == IF X1.s.audioContext # "none" THEN Call(X1, 0, "audioContext.close") ELSE X1
        X3 == IF worklet
              THEN IF X2.s.audioNode # "none" THEN Call(X2, 0, "audioNode.disconnect") ELSE X2
              ELSE IF X2.s.captureNode # "none"
                   THEN Call(X2, 0, "captureNode.disconnect")
                   ELSE X2
        X4 == IF X3.s.stream # "none" THEN Call(X3, 0, "track.stop") ELSE X3
        s1 == [X4.s EXCEPT !.isCalling = FALSE]
        s2 == IF worklet
              THEN [s1 EXCEPT !.audioNode = "none"]
              ELSE IF s1.captureNode # "none"
                   THEN [s1 EXCEPT !.captureNode = "none", !.audioData = <<>>,
                                   !.audioDataIndex = 0]
                   ELSE s1
    IN [X4 EXCEPT !.s = [s2 EXCEPT !.liveClient = Null, !.stream = "none",
                                   !.audioContext = "none"]]

\* playAudio when isAudioWorkletSupported(): this.audioNode.port.postMessage(audio)
playAudioWorklet(X, m) ==
    IF X.s.audioNode = "none"
    THEN Throw(X, "TypeError")
    ELSE [X EXCEPT !.toWorklet = Append(@, m)]

\* mutant: every pushed chunk announces the start of speech
playAudioFallbackAlwaysStart(X, m) ==
    IF m.kind # "binary"
    THEN Throw(X, "TypeError")
    ELSE Emit([X EXCEPT !.s.audioData = Append(@, convertUint8ToFloat32(m.bytes)),
                        !.s.isTalking = TRUE], "agentStartTalking")

\* playAudio otherwise: decode, push, start talking
playAudioFallback(X, m) ==
    IF m.kind # "binary"
    THEN Throw(X, "TypeError")    \* new DataView(undefined)
    ELSE LET X1 == [X EXCEPT !.s.audioData = Append(@, convertUint8ToFloat32(m.bytes))]
         IN IF ~X1.s.isTalking
            THEN Emit([X1 EXCEPT !.s.isTalking = TRUE], "agentStartTalking")
            ELSE X1

\* mutant: the script-processor path puts a new chunk in front of the queue
playAudioPrepend(X, m) ==
    IF worklet THEN playAudioWorklet(X, m)
    ELSE IF m.kind # "binary"
         THEN Throw(X, "TypeError")
         ELSE LET X1 == [X EXCEPT !.s.audioData = <<convertUint8ToFloat32(m.bytes)>> \o @]
              IN IF ~X1.s.isTalking
                 THEN Emit([X1 EXCEPT !.s.isTalking = TRUE], "agentStartTalking")
                 ELSE X1

playAudio(X, m) == IF worklet THEN playAudioWorklet(X, m) ELSE playAudioFallback(X, m)

\* the listeners handleAudioEvents attaches to every AudioWsClient it is given
OnOpen(X) == Emit(X, "conversationStarted")

OnAudio(X, m) == playAudio(X, m)

OnDisconnect(X) == Emit(X, "disconnect")

OnError(X) ==
    LET X1 == Emit(X, "error")
    IN IF X1.s.isCalling THEN stopConversation(X1) ELSE X1

\* mutant: a close event does not tear the call down
OnCloseNoStop(X, code, reason) == EmitEnded(X, code, reason)

\* the close listener: (code, reason) are the listener's first two arguments
OnClose(X, code, reason) ==
    LET X1 == IF X.s.isCalling THEN stopConversation(X) ELSE X
    IN EmitEnded(X1, code, reason)

OnClear(X) ==
    IF worklet
    THEN IF X.s.audioNode = "none"
         THEN Throw(X, "TypeError")
         ELSE [X EXCEPT !.toWorklet = Append(@, TextMsg("clear"))]
    ELSE LET X1 == [X EXCEPT !.s.audioData = <<>>, !.s.audioDataIndex = 0]
         IN IF X1.s.isTalking
            THEN Emit([X1 EXCEPT !.s.isTalking = FALSE], "agentStopTalking")
            ELSE X1

\* ------------------------------------------------------ AudioWsClient (2)
\* EventEmitter.emit on an AudioWsClient, followed by the session's listener
WsEmit(X, c, name) == AddFx(X, "ws.emit", c, name, "", <<>>)

onopen(X, c) == OnOpen(WsEmit(X, c, "open"))

\* mutant: a pong restores the initial cadence
onmessageRestore(X, c, m) ==
    IF m.kind = "text" /\ m.text = "pong"
    THEN resetPingTimeout([X EXCEPT !.ws[c].pingIntervalTime = InitialPingIntervalTime], c)
    ELSE IF m.kind = "binary"
         THEN OnAudio(AddFx(X, "ws.emit", c, "audio", "", m.bytes), m)
         ELSE OnAudio(AddFx(X, "ws.emit", c, "audio", m.text, <<>>), m)

onmessage(X, c, m) ==
    IF m.kind = "text" /\ m.text = "pong"
    THEN resetPingTimeout(X, c)
    ELSE IF m.kind = "binary"
         THEN OnAudio(AddFx(X, "ws.emit", c, "audio", "", m.bytes), m)
         ELSE OnAudio(AddFx(X, "ws.emit", c, "audio", m.text, <<>>), m)

\* this.emit("close", event): the listener's first argument is the event
\* object, its second is undefined
onclose(X, c, event) == OnClose(WsEmit(X, c, "close"), JsCloseEvent(event), JsUndefined)

onerror(X, c) == OnError(WsEmit(X, c, "error"))

\* mutant: the second deadline is armed without lowering the interval
deadlineCallbackNoAdjust(X, c) ==
    IF X.ws[c].pingIntervalTime = EscalationThreshold
    THEN LET h == FreshHandle(X, c)
         IN [X EXCEPT !.timers = @ \cup {Timer(h, c, "disconnect", DisconnectDelay, 0)},
                      !.ws[c].pingTimeout = h]
    ELSE X

\* the callback resetPingTimeout hands to setTimeout
deadlineCallback(X, c) ==
    IF X.ws[c].pingIntervalTime = EscalationThreshold
    THEN LET X1 == adjustPingFrequency(X, c, FastPingIntervalTime)
             h == FreshHandle(X1, c)
         IN [X1 EXCEPT !.timers = @ \cup {Timer(h, c, "disconnect", DisconnectDelay, 0)},
                       !.ws[c].pingTimeout = h]
    ELSE X

\* mutant: a missed second deadline hangs the call up
disconnectCallbackHangsUp(X, c) ==
    LET X1 == stopConversation(OnDisconnect(WsEmit(X, c, "disconnect")))
    IN [X1 EXCEPT !.ws[c].wasDisconnected = TRUE,
                  !.ws[c].disconnects = IF @ < 2 THEN @ + 1 ELSE @]

\* the inner callback: emit("disconnect"); wasDisconnected = true
disconnectCallback(X, c) ==
    LET X1 == OnDisconnect(WsEmit(X, c, "disconnect"))
    IN [X1 EXCEPT !.ws[c].wasDisconnected = TRUE,
                  !.ws[c].disconnects = IF @ < 2 THEN @ + 1 ELSE @]

\* --------------------------------------------------------- playback drain
\* The loop shared by onaudioprocess and the worklet's process(): one output
\* sample per iteration, read at the cursor of the head chunk.
RECURSIVE Drain(_, _, _, _)
Drain(data, idx, n, out) ==
    IF n = 0
    THEN [audioData |-> data, index |-> idx, out |-> out]
    ELSE IF Len(data) > 0
         THEN LET head == data[1]
                  v == IF idx < Len(head) THEN head[idx + 1] ELSE NaN
              IN IF idx + 1 = Len(head)
                 THEN Drain(Tail(data), 0, n - 1, Append(out, v))
                 ELSE Drain(data, idx + 1, n - 1, Append(out, v))
         ELSE Drain(data, idx, n - 1, Append(out, 0))

\* captureNode.onaudioprocess
onaudioprocess(X, input) ==
    IF X.s.isCalling
    THEN LET pcmData == convertFloat32ToUint8(input)
             X1 == IF X.s.liveClient = Null
                   THEN Throw(X, "TypeError")
                   ELSE send(X, X.s.liveClient, pcmData)
             d == Drain(X1.s.audioData, X1.s.audioDataIndex, BlockSize, <<>>)
             X2 == [X1 EXCEPT !.s.audioData = d.audioData, !.s.audioDataIndex = d.index,
                              !.tape = Pulled(@, d.out)]
             X3 == EmitBytes(X2, "audio", convertFloat32ToUint8(d.out))
         IN IF X.s.liveClient = Null
            THEN X1
            ELSE IF Len(X3.s.audioData) = 0 /\ X3.s.isTalking
                 THEN Emit([X3 EXCEPT !.s.isTalking = FALSE], "agentStopTalking")
                 ELSE X3
    ELSE X

\* --------------------------------------------- captureAndPlaybackProcessor
PortMsg(tag, text, bytes) == [tag |-> tag, text |-> text, bytes |-> bytes]

Post(X, tag, text, bytes) ==
    [X EXCEPT !.fromWorklet = Append(@, PortMsg(tag, text, bytes))]

\* this.port.onmessage inside the worklet
procOnMessage(X, m) ==
    IF m.kind = "text" /\ m.text = "clear"
    THEN LET X1 == [X EXCEPT !.proc.audioData = <<>>, !.proc.index = 0]
         IN IF X1.proc.isTalking
            THEN Post([X1 EXCEPT !.proc.isTalking = FALSE], "note", "agent_stop_talking", <<>>)
            ELSE X1
    ELSE IF (IF m.kind = "text" THEN Len(m.text) ELSE Len(m.bytes)) > 0
         THEN IF m.kind = "text"
              THEN Throw(X, "TypeError")    \* new DataView(undefined), in the worklet
              ELSE LET X1 == [X EXCEPT !.proc.audioData =
                                          Append(@, convertUint8ToFloat32(m.bytes))]
                   IN IF ~X1.proc.isTalking
                      THEN Post([X1 EXCEPT !.proc.isTalking = TRUE],
                                "note", "agent_start_talking", <<>>)
                      ELSE X1
         ELSE X

\* process(inputs, outputs, parameters)
process(X, input) ==
    LET X1 == Post(X, "capture", "", convertFloat32ToUint8(input))
        d == Drain(X1.proc.audioData, X1.proc.index, BlockSize, <<>>)
        X2 == [X1 EXCEPT !.proc.audioData = d.audioData, !.proc.index = d.index]
        X3 == Post(X2, "playback", "", convertFloat32ToUint8(d.out))
    IN IF Len(X3.proc.audioData) = 0 /\ X3.proc.isTalking
       THEN Post([X3 EXCEPT !.proc.isTalking = FALSE], "note", "agent_stop_talking", <<>>)
       ELSE X3

\* this.audioNode.port.onmessage on the main thread
portOnMessage(X, pm) ==
    IF pm.tag = "capture"
    THEN IF X.s.liveClient # Null THEN send(X, X.s.liveClient, pm.bytes) ELSE X
    ELSE IF pm.tag = "playback"
         THEN EmitBytes(X, "audio", pm.bytes)
         ELSE IF pm.text = "agent_stop_talking"
              THEN Emit(X, "agentStopTalking")
              ELSE IF pm.text = "agent_start_talking"
                   THEN Emit(X, "agentStartTalking")
                   ELSE X

\* ------------------------------------------------------- initConversation
\* mutant: isCalling is not raised
NewLiveClientNotCalling(X) ==
    LET c == X.created + 1
    IN [X EXCEPT !.created = c, !.ws[c] = NewWs, !.s.liveClient = c]

\* new AudioWsClient(...); this.handleAudioEvents(); this.isCalling = true
NewLiveClient(X) ==
    LET c == X.created + 1
    IN [X EXCEPT !.created = c, !.ws[c] = NewWs, !.s.liveClient = c, !.s.isCalling = TRUE]

\* catch (error) { this.emit("Error", error.message) }
InitFailed(X, message) == [EmitText(X, "Error", message) EXCEPT !.pc = "done"]

\* initConversation after setupAudioPlayback has returned
InitFinish(X) == [NewLiveClient(X) EXCEPT !.pc = "done"]

\* setupAudioPlayback from the point where the stream is available
AfterStream(X) ==
    LET X1 == NewLiveClient([X EXCEPT !.s.stream = "live"])
    IN IF X1.s.audioContext = "none"
       THEN InitFailed(X1, "TypeError")
       ELSE IF worklet
            THEN [X1 EXCEPT !.pc = "awaitModule"]
            ELSE \* this.captureNode = createScriptProcessor(...): a node already
                 \* installed stays connected, with its handler, in its own context
                 InitFinish([X1 EXCEPT !.s.captureNode = "node",
                                       !.stray = IF X.s.captureNode = "node" THEN @ + 1 ELSE @])

\* setupAudioPlayback after audioWorklet.addModule has resolved
AfterModule(X) ==
    IF X.s.audioContext = "none"
    THEN InitFailed(X, "TypeError")
    ELSE InitFinish([X EXCEPT !.s.audioNode = "node",
                              !.proc = [NewProc EXCEPT !.running = TRUE]])

\* ================================================================ actions
Created(c) == c \in 1..created

InputMsg(input) == [kind |-> "input", text |-> "", bytes |-> input]
\* a captured block: BlockSize times the same sample
InputBlocks == {[i \in 1..BlockSize |-> v] : v \in InputVals}

\* public async initConversation(config): runs up to its first real await
InitConversation(customStream) ==
    /\ pc = "idle"
    /\ created + 2 <= MaxClients
    /\ LET X == [Ctx EXCEPT !.s.audioContext = "live"]
       IN Commit(IF customStream THEN AfterStream(X) ELSE [X EXCEPT !.pc = "awaitStream"],
                 Op("initConversation", 0, NoMsg))

\* initConversation called again after an earlier call has returned. With the
\* worklet, only once the processor of the earlier call has stopped rendering
\* and its port is empty: proc describes one processor.
ReInitConversation(customStream) ==
    /\ pc = "done"
    /\ created + 2 <= MaxClients
    /\ worklet => ~proc.running /\ toWorklet = <<>> /\ fromWorklet = <<>>
    /\ LET X == [Ctx EXCEPT !.s.audioContext = "live"]
       IN Commit(IF customStream THEN AfterStream(X) ELSE [X EXCEPT !.pc = "awaitStream"],
                 Op("initConversation", 0, NoMsg))

\* getUserMedia resolves
StreamResolved ==
    /\ pc = "awaitStream"
    /\ Commit(AfterStream(Ctx), Op("streamResolved", 0, NoMsg))

\* getUserMedia rejects: throw new Error("User rejected microphone access")
StreamRejected ==
    /\ pc = "awaitStream"
    /\ Commit(InitFailed(Ctx, "User rejected microphone access"),
              Op("streamRejected", 0, NoMsg))

\* audioWorklet.addModule resolves
ModuleResolved ==
    /\ pc = "awaitModule"
    /\ Commit(AfterModule(Ctx), Op("moduleResolved", 0, NoMsg))

\* audioWorklet.addModule rejects
ModuleRejected ==
    /\ pc = "awaitModule"
    /\ Commit(InitFailed(Ctx, "addModule"), Op("moduleRejected", 0, NoMsg))

\* public stopConversation()
StopConversation ==
    Commit(stopConversation(Ctx), Op("stopConversation", 0, NoMsg))

\* the socket connects: ws.onopen
WsOpen(c) ==
    /\ Created(c)
    /\ ws[c].readyState = CONNECTING
    /\ LET X == [Ctx EXCEPT !.ws[c].readyState = OPEN,
                            !.quiet = IF @.state = "pong" THEN @
                                      ELSE [state |-> "counting", ms |-> 0]]
       IN Commit(onopen(X, c), Op("open", c, NoMsg))

\* a message arrives on an open socket: ws.onmessage
WsMessage(c, m) ==
    /\ Created(c)
    /\ ws[c].readyState = OPEN
    /\ QueueHasRoom
    /\ Len(toWorklet) < MaxPosted
    /\ TapeHasRoom
    /\ LET X == IF m.kind = "text" /\ m.text = "pong"
                THEN [Ctx EXCEPT !.quiet = [state |-> "pong", ms |-> 0]]
                ELSE [Ctx EXCEPT !.tape = Arrived(@, m)]
       IN Commit(onmessage(X, c, m), Op("message", c, m))

\* the peer starts the closing handshake
WsClosing(c) ==
    /\ Created(c)
    /\ ws[c].readyState = OPEN
    /\ Commit([Ctx EXCEPT !.ws[c].readyState = CLOSING], Op("closing", c, NoMsg))

\* the connection is closed cleanly: ws.onclose
WsClose(c, event) ==
    /\ Created(c)
    /\ ws[c].readyState # CLOSED
    /\ Commit(onclose([Ctx EXCEPT !.ws[c].readyState = CLOSED], c, event),
              Op("close", c, event))

\* the connection fails: ws.onerror, then ws.onclose, in one task
WsError(c) ==
    /\ Created(c)
    /\ ws[c].readyState # CLOSED
    /\ Commit(onclose(onerror([Ctx EXCEPT !.ws[c].readyState = CLOSED], c), c,
                      AbnormalClosure),
              Op("error", c, AbnormalClosure))

\* TickMs pass; every timer that is due has run first
Counting == quiet.state = "counting" /\ quiet.ms < SilenceCap

Tick ==
    /\ \A t \in timers : t.rem > 0
    /\ timers # {} \/ Counting
    /\ LET X == [Ctx EXCEPT
                   !.timers = {[t EXCEPT !.rem = @ - TickMs] : t \in @},
                   !.quiet = IF Counting THEN [@ EXCEPT !.ms = @ + TickMs] ELSE @]
       IN Commit(X, Op("tick", 0, NoMsg))

\* the host runs a due timer's callback
Fire(t) ==
    /\ t \in timers
    /\ t.rem = 0
    /\ LET c == t.owner
           X == IF t.period > 0
                THEN [Ctx EXCEPT !.timers = (@ \ {t}) \cup {[t EXCEPT !.rem = t.period]}]
                ELSE [Ctx EXCEPT !.timers = @ \ {t}]
       IN \/ /\ t.cb = "sendPing"
             /\ Commit(sendPing(X, c), Op("sendPing", c, NoMsg))
          \/ /\ t.cb = "deadline"
             /\ Commit(deadlineCallback(X, c), Op("deadline", c, NoMsg))
          \/ /\ t.cb = "disconnect"
             /\ Commit(disconnectCallback(X, c), Op("disconnectTimer", c, NoMsg))

\* A cursor that has passed the end of the head chunk only grows and can never
\* again equal that chunk's length, so every value beyond the longest chunk
\* behaves alike: such a cursor is kept at MaxCursor.
CapCursor(X) == [X EXCEPT !.s.audioDataIndex = IF @ > MaxCursor THEN MaxCursor ELSE @]

\* the host's audio clock invokes the script processor's callback
AudioProcess(input) ==
    /\ session.captureNode = "node" \/ stray > 0
    /\ TapeHasRoom
    /\ \E X \in {CapCursor(onaudioprocess(Ctx, input))} :
          Commit(X, Op("audioprocess", 0, InputMsg(input)))

\* one render quantum of the worklet processor. The audio thread runs on its
\* own: audioNode.disconnect() and audioContext.close() take effect there
\* only later (RenderingStops), and process() always returns true.
WorkletProcess(input) ==
    /\ proc.running
    /\ proc.index + BlockSize <= MaxCursor
    /\ Len(fromWorklet) + 3 <= MaxPort
    /\ Commit(process(Ctx, input), Op("process", 0, InputMsg(input)))

\* audioContext.close() has completed: the audio thread stops rendering
RenderingStops ==
    /\ proc.running
    /\ session.audioContext = "none"
    /\ Commit([Ctx EXCEPT !.proc.running = FALSE], Op("renderingStops", 0, NoMsg))

\* a message posted to audioNode.port reaches the processor
PortToWorklet ==
    /\ toWorklet # <<>>
    /\ Len(proc.audioData) < MaxChunks
    /\ Len(fromWorklet) < MaxPort
    /\ Commit(procOnMessage([Ctx EXCEPT !.toWorklet = Tail(@)], Head(toWorklet)),
              Op("procMessage", 0, Head(toWorklet)))

\* a message posted by the processor reaches audioNode.port.onmessage
PortToMain ==
    /\ fromWorklet # <<>>
    /\ Commit(portOnMessage([Ctx EXCEPT !.fromWorklet = Tail(@)], Head(fromWorklet)),
              Op("portMessage", 0, NoMsg))

\* ------------------------------------------- both pipelines, side by side
\* The same inbound messages and the same playback ticks are given to the
\* script-processor pipeline (session.audioData, driven through ws.onmessage
\* and onaudioprocess) and to the worklet processor (proc, which receives what
\* playAudio posts, unchanged, and whose notes port.onmessage turns into
\* events). talk records the talking notifications of each.
RECURSIVE DeliverAll(_)
DeliverAll(X) ==
    IF X.fromWorklet = <<>> THEN X
    ELSE DeliverAll(portOnMessage([X EXCEPT !.fromWorklet = Tail(@)], Head(X.fromWorklet)))

Both(P, W) ==
    [P EXCEPT !.proc = W.proc,
              !.fx = P.fx \o W.fx,
              !.talk = [polled |-> @.polled \o TalkNames(P.fx),
                        worker |-> @.worker \o TalkNames(W.fx)]]

BothReady ==
    /\ ~worklet
    /\ session.captureNode = "node"
    /\ session.liveClient # Null
    /\ ws[session.liveClient].readyState = OPEN
    /\ Len(talk.polled) < MaxNotes
    /\ Len(talk.worker) < MaxNotes

\* one inbound message, received by both
BothMessage(m) ==
    /\ BothReady
    /\ Len(session.audioData) < MaxChunks
    /\ Len(proc.audioData) < MaxChunks
    /\ Commit(Both(onmessage(Ctx, session.liveClient, m), DeliverAll(procOnMessage(Ctx, m))),
              Op("bothMessage", session.liveClient, m))

\* one playback tick of both
BothTick(input) ==
    /\ BothReady
    /\ session.audioDataIndex + BlockSize <= MaxCursor
    /\ proc.index + BlockSize <= MaxCursor
    /\ Commit(Both(onaudioprocess(Ctx, input), DeliverAll(process(Ctx, input))),
              Op("bothTick", 0, InputMsg(input)))

\* The state after new BlandWebClient(...), nothing recorded
Constructed ==
    /\ session = NewSession
    /\ pc = "idle"
    /\ created = 0
    /\ ws = [c \in Clients |-> NewWs]
    /\ timers = {}
    /\ proc = NewProc
    /\ toWorklet = <<>>
    /\ fromWorklet = <<>>
    /\ quiet = [state |-> "idle", ms |-> 0]
    /\ talk = [polled |-> <<>>, worker |-> <<>>]
    /\ stray = 0
    /\ heard = "none"
    /\ last = [op |-> "new", c |-> 0, m |-> NoMsg, interval |-> 0, again |-> FALSE]
    /\ fx = <<>>

Init ==
    /\ worklet \in BOOLEAN
    /\ Constructed
    /\ codec = NoCodec
    /\ tape = NoTape
    /\ tally = NoTally

InitLifecycle ==
    /\ worklet \in BOOLEAN
    /\ Constructed
    /\ codec = NoCodec
    /\ tape = NoTape
    /\ tally = [NoTally EXCEPT !.on = TRUE]

InitCodec ==
    /\ worklet = FALSE
    /\ Constructed
    /\ CodecInput
    /\ tape = NoTape
    /\ tally = NoTally

InitEndToEnd ==
    /\ worklet = FALSE
    /\ Constructed
    /\ codec = NoCodec
    /\ tape = [NoTape EXCEPT !.rec = TRUE]
    /\ tally = NoTally

Next ==
    \/ \E customStream \in BOOLEAN : InitConversation(customStream)
    \/ \E customStream \in BOOLEAN : ReInitConversation(customStream)
    \/ StreamResolved
    \/ StreamRejected
    \/ ModuleResolved
    \/ ModuleRejected
    \/ StopConversation
    \/ \E c \in Clients : WsOpen(c)
    \/ \E c \in Clients, m \in Messages : WsMessage(c, m)
    \/ \E c \in Clients : WsClosing(c)
    \/ \E c \in Clients, event \in CloseEvents : WsClose(c, event)
    \/ \E c \in Clients : WsError(c)
    \/ Tick
    \/ \E t \in timers : Fire(t)
    \/ \E input \in InputBlocks : AudioProcess(input)
    \/ \E input \in InputBlocks : WorkletProcess(input)
    \/ RenderingStops
    \/ PortToWorklet
    \/ PortToMain
    \/ Encode
    \/ Decode

\* The whole client.
Spec == Init /\ [][Next]_vars

\* The transport and its keepalive timers: the only inbound message is
\* "pong" and every close is abnormal. Timer callbacks read and write only
\* AudioWsClient fields and the wire, so audio traffic and the audio clock
\* are left out.
NextKeepalive ==
    \/ \E customStream \in BOOLEAN : InitConversation(customStream)
    \/ StreamResolved
    \/ StreamRejected
    \/ ModuleResolved
    \/ ModuleRejected
    \/ StopConversation
    \/ \E c \in Clients : WsOpen(c)
    \/ \E c \in Clients, m \in KeepaliveMessages : WsMessage(c, m)
    \/ \E c \in Clients : WsClosing(c)
    \/ \E c \in Clients : WsClose(c, AbnormalClosure)
    \/ \E c \in Clients : WsError(c)
    \/ Tick
    \/ \E t \in timers : Fire(t)

SpecKeepalive == Init /\ [][NextKeepalive]_vars

\* The script-processor pipeline (isAudioWorkletSupported() is false) with the
\* clock stopped: no pong arrives, so no timer is ever armed.
InitFallback == Init /\ ~worklet

NextFallback ==
    \/ \E customStream \in BOOLEAN : InitConversation(customStream)
    \/ \E customStream \in BOOLEAN : ReInitConversation(customStream)
    \/ StreamResolved
    \/ StreamRejected
    \/ StopConversation
    \/ \E c \in Clients : WsOpen(c)
    \/ \E c \in Clients, m \in AudioMessages : WsMessage(c, m)
    \/ \E c \in Clients : WsClosing(c)
    \/ \E c \in Clients, event \in CloseEvents : WsClose(c, event)
    \/ \E c \in Clients : WsError(c)
    \/ \E input \in InputBlocks : AudioProcess(input)

SpecFallback == InitFallback /\ [][NextFallback]_vars

\* The worklet pipeline (isAudioWorkletSupported() is true), clock stopped.
\* Frames of one tag and silent capture blocks: the processor treats all
\* payload bytes and all captured samples alike.
InitWorklet == Init /\ worklet

WorkletMessages ==
    {TextMsg("clear")} \cup {BinaryMsg(FrameOf(n, 16)) : n \in 0..MaxFrameBytes}
WorkletInputs == {[i \in 1..BlockSize |-> 0]}

NextWorklet ==
    \/ \E customStream \in BOOLEAN : InitConversation(customStream)
    \/ StreamResolved
    \/ StreamRejected
    \/ ModuleResolved
    \/ ModuleRejected
    \/ StopConversation
    \/ \E c \in Clients : WsOpen(c)
    \/ \E c \in Clients, m \in WorkletMessages : WsMessage(c, m)
    \/ \E c \in Clients : WsClosing(c)
    \/ \E c \in Clients, event \in CloseEvents : WsClose(c, event)
    \/ \E c \in Clients : WsError(c)
    \/ \E input \in WorkletInputs : WorkletProcess(input)
    \/ RenderingStops
    \/ PortToWorklet
    \/ PortToMain

SpecWorklet == InitWorklet /\ [][NextWorklet]_vars

\* Either pipeline, as the host browser decides, clock stopped.
NextPipelines ==
    \/ \E customStream \in BOOLEAN : InitConversation(customStream)
    \/ StreamResolved
    \/ StreamRejected
    \/ ModuleResolved
    \/ ModuleRejected
    \/ StopConversation
    \/ \E c \in Clients : WsOpen(c)
    \/ \E c \in Clients, m \in WorkletMessages : WsMessage(c, m)
    \/ \E c \in Clients : WsClosing(c)
    \/ \E c \in Clients : WsClose(c, AbnormalClosure)
    \/ \E c \in Clients : WsError(c)
    \/ \E input \in WorkletInputs : AudioProcess(input)
    \/ \E input \in WorkletInputs : WorkletProcess(input)
    \/ RenderingStops
    \/ PortToWorklet
    \/ PortToMain

SpecPipelines == Init /\ [][NextPipelines]_vars

\* The playback path of the script-processor pipeline end to end, recorded
\* on tape: frames of half a block, of a whole block and of the largest size,
\* of three contents, and silent capture blocks.
EndToEndTags == FrameTags \cup {112}
EndToEndMessages ==
    {BinaryMsg(FrameOf(n, tag)) : n \in {2 * (BlockSize \div 2), MaxFrameBytes},
                                  tag \in EndToEndTags}

NextEndToEnd ==
    \/ \E customStream \in BOOLEAN : InitConversation(customStream)
    \/ StreamResolved
    \/ StopConversation
    \/ \E c \in Clients : WsOpen(c)
    \/ \E c \in Clients, m \in EndToEndMessages : WsMessage(c, m)
    \/ \E input \in WorkletInputs : AudioProcess(input)

SpecEndToEnd == InitEndToEnd /\ [][NextEndToEnd]_vars

\* The playback queue of the script-processor pipeline under the audio clock:
\* binary frames of every length arrive on an open socket, and the host keeps
\* invoking onaudioprocess for as long as the node is connected.
DrainMessages == {BinaryMsg(b) : b \in Frames}

NextDrain ==
    \/ \E customStream \in BOOLEAN : InitConversation(customStream)
    \/ StreamResolved
    \/ \E c \in Clients : WsOpen(c)
    \/ \E c \in Clients, m \in DrainMessages : WsMessage(c, m)
    \/ \E input \in InputBlocks : AudioProcess(input)

SpecDrain ==
    /\ InitFallback
    /\ [][NextDrain]_vars
    /\ WF_vars(\E input \in InputBlocks : AudioProcess(input))

\* Calls made one after another on one client, on either pipeline, clock
\* stopped: frames of every length and "clear".
NextCalls ==
    \/ \E customStream \in BOOLEAN : InitConversation(customStream)
    \/ \E customStream \in BOOLEAN : ReInitConversation(customStream)
    \/ StreamResolved
    \/ ModuleResolved
    \/ StopConversation
    \/ \E c \in Clients : WsOpen(c)
    \/ \E c \in Clients, m \in WorkletMessages : WsMessage(c, m)
    \/ \E input \in WorkletInputs : AudioProcess(input)
    \/ \E input \in WorkletInputs : WorkletProcess(input)
    \/ RenderingStops
    \/ PortToWorklet
    \/ PortToMain

SpecCalls == Init /\ [][NextCalls]_vars

\* One initConversation call from start to end, on either pipeline, with its
\* lifecycle events counted: the sockets open, and the call ends by
\* stopConversation, by a close from the peer or by a transport error.
NextLifecycle ==
    \/ \E customStream \in BOOLEAN : InitConversation(customStream)
    \/ StreamResolved
    \/ StreamRejected
    \/ ModuleResolved
    \/ ModuleRejected
    \/ StopConversation
    \/ \E c \in Clients : WsOpen(c)
    \/ \E c \in Clients : WsClosing(c)
    \/ \E c \in Clients, event \in CloseEvents : WsClose(c, event)
    \/ \E c \in Clients : WsError(c)

SpecLifecycle == InitLifecycle /\ [][NextLifecycle]_vars

\* The conversion functions alone, on every buffer of CodecInput.
NextCodec ==
    \/ Encode
    \/ Decode

SpecCodec == InitCodec /\ [][NextCodec]_vars

\* Both pipelines on the same inputs (see BothMessage, BothTick).
NextVariants ==
    \/ \E customStream \in BOOLEAN : InitConversation(customStream)
    \/ StreamResolved
    \/ \E c \in Clients : WsOpen(c)
    \/ \E m \in AudioMessages : BothMessage(m)
    \/ \E input \in InputBlocks : BothTick(input)

SpecVariants == InitFallback /\ [][NextVariants]_vars

\* ================================================================= claims
TimersOf(c, cb) == {t \in timers : t.owner = c /\ t.cb = cb}
DeadlinesOf(c) == TimersOf(c, "deadline") \cup TimersOf(c, "disconnect")
FxAt(k, v) == {i \in DOMAIN fx : fx[i].k = k /\ fx[i].v = v}
Pong == TextMsg("pong")

\* C1: when the socket opens, a repeating ping of period 5000 is active and a
\* 5000 ms pong deadline is armed, before any pong has been received.
C1_KeepaliveStartsOnOpen ==
    \A c \in Clients :
        (last.op = "open" /\ last.c = c) =>
            /\ \E t \in TimersOf(c, "sendPing") : t.period = InitialPingIntervalTime
            /\ \E t \in TimersOf(c, "deadline") : t.rem = InitialPingIntervalTime

\* C2: when the pong deadline fires while the interval is 5000, the interval
\* becomes 1000, exactly one repeating ping remains and its period is 1000,
\* and a 3000 ms deadline is armed and held in pingTimeout; when that deadline
\* fires, disconnect is emitted and wasDisconnected is set.
C2_Escalation ==
    \A c \in Clients :
        /\ (last.op = "deadline" /\ last.c = c /\ last.interval = EscalationThreshold) =>
              /\ ws[c].pingIntervalTime = FastPingIntervalTime
              /\ \A t \in TimersOf(c, "sendPing") :
                    /\ t.period = FastPingIntervalTime
                    /\ t.rem = FastPingIntervalTime
                    /\ t.id = ws[c].pingInterval
              /\ Cardinality(TimersOf(c, "sendPing")) = 1
              /\ \E t \in TimersOf(c, "disconnect") :
                    t.rem = DisconnectDelay /\ t.id = ws[c].pingTimeout
        /\ (last.op = "disconnectTimer" /\ last.c = c) =>
              /\ Cardinality({i \in FxAt("ws.emit", "disconnect") : fx[i].c = c}) = 1
              /\ Cardinality(FxAt("emit", "disconnect")) = 1
              /\ ws[c].wasDisconnected

C2_Witness ==
    \E c \in Clients :
        /\ last.op = "deadline" /\ last.c = c /\ last.interval = EscalationThreshold
        /\ ws[c].pingIntervalTime = FastPingIntervalTime
        /\ ws[c].pingInterval # Null

\* C3: a socket that has been open for 8000 ms without any pong has lowered
\* its interval to 1000 and has emitted disconnect exactly once.
C3_SilentSessionDisconnectsOnce ==
    \A c \in Clients :
        (Created(c) /\ ws[c].readyState = OPEN
            /\ quiet.state = "counting" /\ quiet.ms >= SilenceCap) =>
            /\ ws[c].pingIntervalTime = FastPingIntervalTime
            /\ ws[c].disconnects = 1
            /\ ws[c].wasDisconnected

\* C4: after a pong is handled exactly one pong deadline is pending for that
\* client, it is the one held in pingTimeout, and it runs for the current
\* interval: no older deadline is left.
C4_PongRearmsSingleDeadline ==
    \A c \in Clients :
        (last.op = "message" /\ last.c = c /\ last.m = Pong) =>
            /\ Cardinality(DeadlinesOf(c)) = 1
            /\ \A t \in DeadlinesOf(c) :
                  t.id = ws[c].pingTimeout /\ t.rem = ws[c].pingIntervalTime

\* C5: the interval is always 5000 or 1000, and no step takes it from 1000
\* to anything else.
C5_IntervalOnlyDecreases ==
    /\ [](\A c \in Clients :
            ws[c].pingIntervalTime \in {InitialPingIntervalTime, FastPingIntervalTime})
    /\ [][\A c \in Clients :
            ws[c].pingIntervalTime = FastPingIntervalTime
                => ws'[c].pingIntervalTime = FastPingIntervalTime]_vars

C5_Witness ==
    \E c \in Clients :
        /\ last.op = "message" /\ last.c = c /\ last.m = Pong
        /\ last.interval = FastPingIntervalTime
        /\ ws[c].pingIntervalTime = FastPingIntervalTime

\* C6: a captured block reaches the socket exactly when the socket is open;
\* in any other state the call sends nothing and throws nothing, and no other
\* operation ever hands a frame to a socket (nothing was queued).
WireFx == {i \in DOMAIN fx : fx[i].k = "wire"}

C6_SendOnlyWhenOpen ==
    IF last.op = "audioprocess" /\ session.isCalling /\ session.liveClient # Null
    THEN IF ws[session.liveClient].readyState = OPEN
         THEN /\ Cardinality(WireFx) = 1
              /\ \A i \in WireFx :
                    /\ fx[i].c = session.liveClient
                    /\ fx[i].v = "binary"
                    /\ fx[i].b = convertFloat32ToUint8(last.m.bytes)
         ELSE WireFx = {} /\ FxAt("throw", "TypeError") = {}
    ELSE WireFx = {}

C6_Witness ==
    /\ last.op = "audioprocess"
    /\ session.isCalling
    /\ session.liveClient # Null
    /\ ws[session.liveClient].readyState = CLOSING
    /\ WireFx = {}

\* C7: sendPing on an open socket puts exactly the text "ping" on the wire,
\* and on a socket that is not open it sends nothing.
C7_PingToken ==
    \A c \in Clients :
        (last.op = "sendPing" /\ last.c = c) =>
            IF ws[c].readyState = OPEN
            THEN /\ Cardinality(WireFx) = 1
                 /\ \A i \in WireFx : fx[i].c = c /\ fx[i].v = "text" /\ fx[i].t = "ping"
            ELSE WireFx = {}

\* C8: a "pong" text is handled as Pong only; a "clear" text empties the
\* playback queue and is never passed on as an audio event.
C8_ClearIsControl ==
    /\ (last.op = "message" /\ last.m = Pong) => fx = <<>>
    /\ (last.op = "message" /\ last.m = TextMsg("clear")) =>
          /\ FxAt("ws.emit", "audio") = {}
          /\ session.audioData = <<>>
          /\ session.audioDataIndex = 0

\* C9: a binary message produces exactly one audio event carrying its bytes,
\* and a message that is not binary produces none.
C9_AudioEventIffBinary ==
    last.op = "message" =>
        IF last.m.kind = "binary"
        THEN /\ Cardinality(FxAt("ws.emit", "audio")) = 1
             /\ \A i \in FxAt("ws.emit", "audio") :
                   fx[i].c = last.c /\ fx[i].b = last.m.bytes /\ fx[i].t = ""
        ELSE FxAt("ws.emit", "audio") = {}

\* C10: whenever the playback queue holds a chunk, the read cursor lies within
\* the head chunk; it never stays at the head chunk's length after a block.
C10_CursorWithinHead ==
    Len(session.audioData) > 0 =>
        /\ 0 <= session.audioDataIndex
        /\ session.audioDataIndex <= Len(session.audioData[1])
        /\ (last.op = "audioprocess" => session.audioDataIndex < Len(session.audioData[1]))

\* ---------------------------------------------------------------- C11
RECURSIVE Flatten(_)
Flatten(chunks) == IF chunks = <<>> THEN <<>> ELSE Head(chunks) \o Flatten(Tail(chunks))

\* the samples pushed and not yet played, in arrival order
Pending == SubSeq(Flatten(session.audioData), session.audioDataIndex + 1,
                  Len(Flatten(session.audioData)))

\* the first n samples of q, followed by zeros when q is shorter
Pull(q, n) == [i \in 1..n |-> IF i <= Len(q) THEN q[i] ELSE 0]

PlayedBytes(effects) ==
    {effects[i].b : i \in {j \in DOMAIN effects : effects[j].k = "emit" /\ effects[j].v = "audio"}}

\* C11: the playback queue is FIFO. A pushed chunk is appended behind the
\* samples still pending; a playback block outputs the first BlockSize pending
\* samples in order, zeros once they are exhausted, and removes exactly those
\* samples from the pending ones.
C11_Fifo ==
    [][/\ (last'.op = "message" /\ last'.m.kind = "binary") =>
             Pending' = Pending \o convertUint8ToFloat32(last'.m.bytes)
       /\ (last'.op = "audioprocess" /\ session.isCalling) =>
             /\ PlayedBytes(fx') = {convertFloat32ToUint8(Pull(Pending, BlockSize))}
             /\ Pending' = SubSeq(Pending, BlockSize + 1, Len(Pending))]_vars

\* ---------------------------------------------------------------- C12
Clear == TextMsg("clear")
TalkFx(effects, name) == {i \in DOMAIN effects : effects[i].k = "emit" /\ effects[i].v = name}

\* C12: once a "clear" message has been handled the playback queue is empty,
\* the read cursor is 0 and isTalking is false; agentStopTalking was emitted
\* exactly once if isTalking was true before and not at all otherwise.
C12_ClearDropsBuffer ==
    [][(last'.op = "message" /\ last'.m = Clear) =>
          /\ session'.audioData = <<>>
          /\ session'.audioDataIndex = 0
          /\ ~session'.isTalking
          /\ Cardinality(TalkFx(fx', "agentStopTalking")) = IF session.isTalking THEN 1 ELSE 0
          /\ TalkFx(fx', "agentStartTalking") = {}]_vars

\* ---------------------------------------------------------------- C13
\* C13: talking hysteresis of the script-processor path. A non-empty chunk
\* pushed into an empty queue while isTalking is false emits agentStartTalking
\* exactly once; a push while isTalking is true emits none; the playback block
\* that empties the queue emits agentStopTalking exactly once and leaves
\* isTalking false; a block on an empty queue that is not talking emits none.
C13_TalkingHysteresis ==
    [][/\ (/\ last'.op = "message" /\ last'.m.kind = "binary"
            /\ convertUint8ToFloat32(last'.m.bytes) # <<>>
            /\ session.audioData = <<>> /\ ~session.isTalking) =>
             /\ Cardinality(TalkFx(fx', "agentStartTalking")) = 1
             /\ TalkFx(fx', "agentStopTalking") = {}
             /\ session'.isTalking
       /\ (last'.op = "message" /\ session.isTalking) =>
             /\ TalkFx(fx', "agentStartTalking") = {}
             /\ TalkFx(fx', "agentStopTalking") = {}
       /\ (last'.op = "audioprocess" /\ session.audioData # <<>>
                /\ session'.audioData = <<>>) =>
             /\ Cardinality(TalkFx(fx', "agentStopTalking")) = 1
             /\ ~session'.isTalking
       /\ (last'.op = "audioprocess" /\ session.audioData = <<>> /\ ~session.isTalking) =>
             /\ TalkFx(fx', "agentStopTalking") = {}
             /\ TalkFx(fx', "agentStartTalking") = {}
             /\ ~session'.isTalking]_vars

C13_Witness ==
    /\ last.op = "audioprocess"
    /\ session.audioData = <<>>
    /\ ~session.isTalking
    /\ Cardinality(TalkFx(fx, "agentStopTalking")) = 1

\* ---------------------------------------------------------------- C14
\* C14: given the same inbound frames, clear messages and playback ticks, the
\* script-processor pipeline and the worklet pipeline have emitted the same
\* sequence of agentStartTalking / agentStopTalking notifications.
C14_SameTalkNotifications == talk.polled = talk.worker

\* ---------------------------------------------------------------- C15
LiveTransports == {c \in 1..created : ws[c].readyState \in {CONNECTING, OPEN}}

\* C15: at most one transport created by the session is connecting or open
\* at any time, and after stopConversation the session holds no transport
\* and no processing node.
C15_SingleTransport ==
    /\ Cardinality(LiveTransports) <= 1
    /\ last.op = "stopConversation" =>
          /\ session.liveClient = Null
          /\ session.audioNode = "none"
          /\ session.captureNode = "none"

\* ---------------------------------------------------------------- C16
\* stopConversation has run while initConversation is suspended: only it
\* clears audioContext, which initConversation sets before its first await
StoppedMidSetup == pc \in {"awaitStream", "awaitModule"} /\ session.audioContext = "none"

\* C16: when initConversation finishes after stopConversation was called
\* during one of its awaits, isCalling is false, no transport is connecting or
\* open, the stream is released and no node is installed.
C16_StopMidSetupIsTerminal ==
    [][(StoppedMidSetup /\ pc' = "done") =>
          /\ ~session'.isCalling
          /\ session'.liveClient = Null
          /\ \A c \in 1..created' : ws'[c].readyState \notin {CONNECTING, OPEN}
          /\ session'.stream = "none"
          /\ session'.audioNode = "none"
          /\ session'.captureNode = "none"]_vars

\* ---------------------------------------------------------------- C17
\* C17: a stopConversation() called directly after another one throws
\* nothing, releases nothing a second time and changes no state.
C17_StopIdempotent ==
    /\ [](last.again => fx = <<>>)
    /\ [][last'.again =>
            /\ session' = session
            /\ ws' = ws
            /\ timers' = timers
            /\ pc' = pc
            /\ created' = created]_vars

C17_Witness ==
    /\ last.again
    /\ created > 0
    /\ \E c \in 1..created : ws[c].readyState = CLOSING

\* ---------------------------------------------------------------- C18
\* C18: when getUserMedia or addModule rejects, exactly one Error event is
\* emitted, isCalling is false and no transport is connecting or open.
C18_SetupFailureLeavesNothing ==
    last.op \in {"streamRejected", "moduleRejected"} =>
        /\ Cardinality(FxAt("emit", "Error")) = 1
        /\ ~session.isCalling
        /\ LiveTransports = {}

\* ---------------------------------------------------------------- C19
\* C19: no transport exists, and conversationStarted is not emitted, before
\* initConversation has got through the audio setup.
C19_ConnectAfterSetup ==
    /\ created > 0 => pc = "done"
    /\ FxAt("emit", "conversationStarted") # {} => pc = "done"

\* ---------------------------------------------------------------- C20
SetupOps == {"initConversation", "streamResolved", "moduleResolved"}

\* C20: a close or an error of a transport while isCalling is true leaves
\* isCalling false and every reference released, with conversationEnded
\* emitted once; and a transport is only ever created by initConversation.
C20_TransportFailureTearsDown ==
    /\ [][(last'.op \in {"close", "error"} /\ session.isCalling) =>
            /\ ~session'.isCalling
            /\ session'.liveClient = Null
            /\ session'.stream = "none"
            /\ session'.audioContext = "none"
            /\ session'.audioNode = "none"
            /\ session'.captureNode = "none"
            /\ Cardinality(TalkFx(fx', "conversationEnded")) = 1]_vars
    /\ [][created' # created => last'.op \in SetupOps]_vars

C20_Witness ==
    /\ last.op \in {"close", "error"}
    /\ FxAt("call", "track.stop") # {}
    /\ FxAt("emit", "conversationEnded") # {}
    /\ ~session.isCalling

\* ---------------------------------------------------------------- C21
\* C21: when a transport closes with code c and reason r, the
\* conversationEnded event of the session carries code = c and reason = r.
C21_EndedCarriesCodeAndReason ==
    last.op = "close" =>
        /\ FxAt("emit", "conversationEnded") # {}
        /\ \A i \in FxAt("emit", "conversationEnded") :
              /\ fx[i].code = JsNumber(last.m.bytes[1])
              /\ fx[i].reason = JsString(last.m.text)

\* ---------------------------------------------------------------- C22
ClosedTransports == {c \in 1..created : ws[c].readyState \in {CLOSING, CLOSED}}

\* C22: after stopConversation no keepalive timer of a closed transport is
\* pending, and the keepalive monitor of a closed transport neither sends a
\* ping nor emits disconnect.
C22_NoTimersAfterTeardown ==
    /\ last.op = "stopConversation" => \A t \in timers : t.owner \notin ClosedTransports
    /\ (last.op \in {"sendPing", "disconnectTimer"} /\ last.c \in ClosedTransports) =>
          /\ WireFx = {}
          /\ FxAt("ws.emit", "disconnect") = {}
          /\ FxAt("emit", "disconnect") = {}

\* ---------------------------------------------------------------- C23
\* C23: the keepalive's disconnect emission sets wasDisconnected of its
\* transport and changes nothing else: the session (isCalling, the playback
\* queue, isTalking, its references), every socket's readyState and keepalive
\* fields, the worklet processor and the other timers are as before, and the
\* only effects are the transport's disconnect event and the session's
\* disconnect event forwarding it.
C23_DisconnectOnlySetsFlag ==
    [][last'.op = "disconnectTimer" =>
          /\ session' = session
          /\ proc' = proc
          /\ toWorklet' = toWorklet
          /\ fromWorklet' = fromWorklet
          /\ pc' = pc
          /\ created' = created
          /\ ws'[last'.c].wasDisconnected
          /\ \A c \in Clients :
                /\ ws'[c].readyState = ws[c].readyState
                /\ ws'[c].pingIntervalTime = ws[c].pingIntervalTime
                /\ ws'[c].pingInterval = ws[c].pingInterval
                /\ ws'[c].pingTimeout = ws[c].pingTimeout
                /\ c # last'.c => ws'[c] = ws[c]
          /\ timers' \subseteq timers
          /\ Cardinality(timers \ timers') = 1
          /\ fx' = <<Effect("ws.emit", last'.c, "disconnect", "", <<>>),
                     Effect("emit", 0, "disconnect", "", <<>>)>>]_vars

C23_Witness ==
    /\ last.op = "disconnectTimer"
    /\ session.isCalling
    /\ session.liveClient = last.c
    /\ ws[last.c].readyState = OPEN
    /\ ws[last.c].wasDisconnected

\* ---------------------------------------------------------------- C24
\* the playback messages the worklet processor posted in this step
PostedPlayback(before, after) ==
    {after[i].bytes : i \in {j \in DOMAIN after : j > Len(before) /\ after[j].tag = "playback"}}

\* C24: a block processed while isCalling is false still produces an output
\* block, and when audio is queued it advances the read cursor or pops a
\* chunk, in the script-processor callback and in the worklet processor.
C24_DrainRegardlessOfCalling ==
    [][(~session.isCalling) =>
          /\ last'.op = "audioprocess" =>
                /\ PlayedBytes(fx') # {}
                /\ session.audioData # <<>> =>
                      \/ session'.audioData # session.audioData
                      \/ session'.audioDataIndex # session.audioDataIndex
          /\ last'.op = "process" =>
                /\ PostedPlayback(fromWorklet, fromWorklet') # {}
                /\ proc.audioData # <<>> =>
                      \/ proc'.audioData # proc.audioData
                      \/ proc'.index # proc.index]_vars

\* ---------------------------------------------------------------- C25
WireBinary == {i \in DOMAIN fx : fx[i].k = "wire" /\ fx[i].v = "binary"}

\* C25: a captured block is put on the wire only while isCalling is true,
\* by the script-processor callback and by the worklet's capture forwarding.
C25_CaptureGatedByCalling == WireBinary # {} => session.isCalling

C25_Witness ==
    /\ worklet
    /\ last.op = "portMessage"
    /\ WireBinary # {}
    /\ session.isCalling

\* ---------------------------------------------------------------- C26
RejectOps == {"streamRejected", "moduleRejected"}

\* initConversation has just ended in its catch block: an await was rejected,
\* or it resumed on the audioContext that stopConversation had released
SetupFailed ==
    \/ last.op \in RejectOps
    \/ last.op \in SetupOps /\ pc = "done" /\ session.audioContext = "none"

\* C26: no step of initConversation lets an exception escape, and every
\* failed initConversation has reported its failure by exactly one error
\* event of the session.
C26_InitReportsFailureOnce ==
    last.op \in SetupOps \cup RejectOps =>
        /\ \A i \in DOMAIN fx : fx[i].k # "throw"
        /\ SetupFailed => Cardinality(FxAt("emit", "error")) = 1
        /\ ~SetupFailed => FxAt("emit", "error") = {} /\ FxAt("emit", "Error") = {}

\* ---------------------------------------------------------------- C27
Abs(n) == IF n < 0 THEN -n ELSE n

\* the buffer started as floats and has been encoded, then decoded
RoundTripped ==
    /\ codec.origin = "floats"
    /\ Len(codec.ops) >= 2
    /\ codec.ops[1] = "encode"
    /\ codec.ops[2] = "decode"
    /\ codec.holds = "floats"

\* x is k / 32768 for an integer k of -32768..32768
UnitSample(x) == x % Step = 0 /\ -FullScale <= x /\ x <= FullScale

\* C27: every sample k / 32768 with k in -32768..32768, both endpoints
\* included, comes back from decode(encode(x)) within one quantization step.
C27_RoundTripWithinOneStep ==
    RoundTripped =>
        /\ Len(codec.floats) = Len(codec.input)
        /\ \A i \in DOMAIN codec.input :
              UnitSample(codec.input[i]) => Abs(codec.floats[i] - codec.input[i]) <= Step

\* ---------------------------------------------------------------- C28
\* the samples of the first 2n bytes of a buffer, read as little-endian
\* two's-complement 16-bit numbers over 32768
SamplesOfPairs(b, n) ==
    [i \in 1..n |->
        LET u == b[2 * i - 1] + 256 * b[2 * i]
        IN Step * (IF u < 32768 THEN u ELSE u - 65536)]

OddDecoded ==
    /\ codec.origin = "bytes"
    /\ codec.ops = <<"decode">>
    /\ Len(codec.input) % 2 = 1

\* C28: decoding a buffer of 2n+1 bytes raises no error and returns exactly
\* the n samples of its first 2n bytes, the empty chunk when n = 0.
C28_OddLengthTruncates ==
    OddDecoded =>
        /\ codec.error = "none"
        /\ codec.holds = "floats"
        /\ codec.floats = SamplesOfPairs(codec.input, (Len(codec.input) - 1) \div 2)

C28_Witness ==
    /\ OddDecoded
    /\ Len(codec.input) = 3
    /\ codec.floats = <<Step * (-32768)>>

C28_WitnessEmpty ==
    /\ OddDecoded
    /\ Len(codec.input) = 1
    /\ codec.floats = <<>>

\* ---------------------------------------------------------------- C30
Encoded ==
    /\ codec.origin = "floats"
    /\ Len(codec.ops) >= 1
    /\ codec.ops[1] = "encode"
    /\ Len(codec.ops) = 1

\* w is x * 32768 with its fraction dropped (toward zero), x given in the
\* sample representation
IsTrunc(w, x) ==
    IF x >= 0 THEN Step * w <= x /\ x < Step * (w + 1)
    ELSE Step * (w - 1) < x /\ x <= Step * w

\* C30: encode writes, for every sample in or out of [-1, 1], two bytes whose
\* little-endian signed 16-bit value is congruent modulo 2^16 to the truncated
\* x * 32768, with no clamping: 1.0 is written as -32768.
C30_EncodeWrapsNoClamp ==
    Encoded =>
        /\ Len(codec.bytes) = 2 * Len(codec.input)
        /\ \A i \in DOMAIN codec.input :
              LET lo == codec.bytes[2 * i - 1]
                  hi == codec.bytes[2 * i]
                  u == lo + 256 * hi
                  w == IF u < 32768 THEN u ELSE u - 65536
              IN /\ lo \in 0..255
                 /\ hi \in 0..255
                 /\ \E q \in -2..2 : IsTrunc(w + 65536 * q, codec.input[i])
                 /\ codec.input[i] = FullScale => w = -32768

C30_Witness ==
    /\ Encoded
    /\ codec.input = <<FullScale, -FullScale - Step>>
    /\ codec.bytes = <<0, 128, 255, 127>>

\* ---------------------------------------------------------------- C29
\* a frame of 1024 samples is half of the script processor's block of 2048
HalfBlockBytes == 2 * (BlockSize \div 2)

\* the record starts with three frames of half a block each, and everything
\* after them is a pull
ThreeFramesThenPulls ==
    /\ tape.rec
    /\ Len(tape.log) >= 3
    /\ \A i \in 1..3 : tape.log[i].k = "frame" /\ Len(tape.log[i].v) = HalfBlockBytes
    /\ \A i \in 4..Len(tape.log) : tape.log[i].k = "pull"

FrameSamples(i) == SamplesOfPairs(tape.log[i].v, Len(tape.log[i].v) \div 2)

\* all samples pulled so far, in order
PulledSamples == Flatten([i \in 1..(Len(tape.log) - 3) |-> tape.log[i + 3].v])

\* C29: when three frames of half a block each have arrived before any pull,
\* the samples pulled from then on are the decoded samples of frame 1, frame 2
\* and frame 3 in that order, and every sample pulled after them is 0.
C29_ThreeFramesEndToEnd ==
    ThreeFramesThenPulls =>
        /\ \A i \in 4..Len(tape.log) : Len(tape.log[i].v) = BlockSize
        /\ PulledSamples =
              Pull(FrameSamples(1) \o FrameSamples(2) \o FrameSamples(3), Len(PulledSamples))

C29_Witness ==
    /\ ThreeFramesThenPulls
    /\ tape.log[1].v = FrameOf(HalfBlockBytes, 16)
    /\ tape.log[2].v = FrameOf(HalfBlockBytes, 112)
    /\ tape.log[3].v = FrameOf(HalfBlockBytes, 240)
    /\ Len(PulledSamples) > 3 * (HalfBlockBytes \div 2)
    /\ PulledSamples[1] # PulledSamples[2]
    /\ PulledSamples[2] # PulledSamples[3]
    /\ PulledSamples[1] # PulledSamples[3]
    /\ PulledSamples[Len(PulledSamples)] = 0


\* ---------------------------------------------------------------- C31
\* the interval of c is 1000 and no 3000 ms deadline of c is pending
Settled(c) == ws[c].pingIntervalTime = FastPingIntervalTime /\ TimersOf(c, "disconnect") = {}

DisconnectFx(effects, c) ==
    {i \in DOMAIN effects : effects[i].v = "disconnect"
                              /\ (effects[i].k = "emit" \/ (effects[i].k = "ws.emit" /\ effects[i].c = c))}

\* C31: a pong handled at interval 1000 leaves no 3000 ms deadline pending;
\* from such a state no step arms one again or emits disconnect for that
\* client, and every pong deadline that fires does nothing at all.
C31_NoDisconnectAfterLatePong ==
    /\ [](\A c \in Clients :
            (last.op = "message" /\ last.c = c /\ last.m = Pong
                /\ last.interval = FastPingIntervalTime) => Settled(c))
    /\ [][\A c \in Clients :
            Settled(c) =>
                /\ Settled(c)'
                /\ (last'.c = c => DisconnectFx(fx', c) = {})
                /\ (last'.op = "deadline" /\ last'.c = c) =>
                      /\ ws' = ws
                      /\ fx' = <<>>
                      /\ timers' \subseteq timers]_vars

C31_Witness ==
    \E c \in Clients :
        /\ last.op = "deadline" /\ last.c = c /\ last.interval = FastPingIntervalTime
        /\ Settled(c)
        /\ ws[c].disconnects = 0
        /\ quiet.state = "pong"
        /\ ws[c].pingTimeout \notin {t.id : t \in TimersOf(c, "deadline")}


\* ---------------------------------------------------------------- C32
\* C32: whenever the playback queue holds something, then, unless another
\* frame arrives, after finitely many playback blocks the queue is empty and
\* isTalking is false (agentStopTalking has been emitted), whatever frames
\* were pushed, frames of zero bytes and of one byte included.
C32_QueueDrains ==
    (session.audioData # <<>>) ~>
        (last.op = "message" \/ (session.audioData = <<>> /\ ~session.isTalking))


\* ---------------------------------------------------------------- C33
Alternating(names) ==
    \A i \in 1..(Len(names) - 1) :
        /\ names[i + 1] = "agentStartTalking" => names[i] # "agentStartTalking"
        /\ names[i + 1] = "agentStopTalking" => names[i] = "agentStartTalking"

\* C33: the agentStartTalking and agentStopTalking events of one client
\* strictly alternate, starting with agentStartTalking, whatever frames,
\* playback blocks, "clear" messages, stopConversation and initConversation
\* calls occur.
C33_TalkEventsAlternate == [][Alternating(<<heard>> \o TalkNames(fx'))]_vars


\* ---------------------------------------------------------------- C34
\* C34: on the script-processor pipeline, after every operation an empty
\* playback queue implies that isTalking is false, after stopConversation in
\* particular; so a frame pushed into an empty queue always emits
\* agentStartTalking.
C34_EmptyQueueNotTalking ==
    /\ [](session.audioData = <<>> => ~session.isTalking)
    /\ [][(/\ last'.op = "message" /\ last'.m.kind = "binary"
           /\ session.audioData = <<>>
           /\ session'.audioData # <<>>) =>
              Cardinality(TalkFx(fx', "agentStartTalking")) = 1]_vars


\* ---------------------------------------------------------------- C35
\* C35: on either pipeline the session's isTalking field is true exactly when
\* the last talking notification it emitted is agentStartTalking.
C35_FieldMatchesEvents == session.isTalking <=> heard = "agentStartTalking"


\* ---------------------------------------------------------------- C36
\* stopConversation has run and no initConversation is in progress or has
\* completed since
TornDown ==
    /\ pc = "done"
    /\ ~session.isCalling
    /\ session.liveClient = Null
    /\ session.audioContext = "none"
    /\ session.audioNode = "none"
    /\ session.captureNode = "none"

\* C36: a binary frame, a "clear" or a close that arrives from a transport
\* once the session is torn down pushes nothing into the playback queue or to
\* the worklet, leaves isTalking alone, emits no agentStartTalking and throws
\* nothing.
C36_NothingAfterTeardown ==
    [][(/\ TornDown
        /\ \/ last'.op = "message" /\ (last'.m.kind = "binary" \/ last'.m = Clear)
           \/ last'.op = "close") =>
          /\ session'.audioData = session.audioData
          /\ session'.isTalking = session.isTalking
          /\ toWorklet' = toWorklet
          /\ TalkFx(fx', "agentStartTalking") = {}
          /\ \A i \in DOMAIN fx' : fx'[i].k # "throw"]_vars


\* ---------------------------------------------------------------- C37
\* C37: over one initConversation call conversationStarted is emitted at most
\* once and conversationEnded at most once, whether the call ends by
\* stopConversation and the following close, by a close from the peer, or by
\* a transport error and its close.
C37_LifecycleEventsOnce == tally.started <= 1 /\ tally.ended <= 1


\* ---------------------------------------------------------------- C38
\* C38: in every state, of each AudioWsClient at most one pong deadline is
\* pending and at most one repeating ping is active, and every pending timer
\* of the client is the one whose handle it holds in pingTimeout or in
\* pingInterval.
C38_TimersHeld ==
    \A c \in Clients :
        /\ Cardinality(DeadlinesOf(c)) <= 1
        /\ Cardinality(TimersOf(c, "sendPing")) <= 1
        /\ \A t \in DeadlinesOf(c) : t.id = ws[c].pingTimeout
        /\ \A t \in TimersOf(c, "sendPing") : t.id = ws[c].pingInterval


\* ---------------------------------------------------------------- C39
\* the buffer started as bytes and has been decoded, then encoded
ReEncoded ==
    /\ codec.origin = "bytes"
    /\ Len(codec.ops) >= 2
    /\ codec.ops[1] = "decode"
    /\ codec.ops[2] = "encode"

\* C39: for every byte buffer of even length, encode(decode(b)) = b.
C39_DecodeEncodeIdentity ==
    (ReEncoded /\ Len(codec.input) % 2 = 0) => codec.bytes = codec.input

C39_Witness ==
    /\ ReEncoded
    /\ codec.input = <<0, 128>>
    /\ codec.bytes = <<0, 128>>

====
